---- MODULE Spec2Model ----
(***************************************************************************)
(* A model of package fakeclock (src/fakeclock/fakeclock.go): a fake clock *)
(* whose time only moves when Add or Now is called, with its timers and    *)
(* tickers.  Every operation of the package is a thread's call: the call   *)
(* takes the clock's mutex (Lock), runs its body and the notification of   *)
(* timers and tickers under the mutex and unlocks (the action named after  *)
(* the operation), and calls the watch function outside the mutex          *)
(* (Callback).  Channel receives are the environment's (Recv, TickerRecv). *)
(* Time is an integer number of ticks; a channel is a sequence of at most  *)
(* ChanCap times.                                                          *)
(*                                                                         *)
(* Spec is the whole package on a clock with one timer and one ticker.     *)
(* SpecTimer is the clock with its timers alone, SpecTicker the clock with *)
(* its tickers and the watch function, SpecNow the clock alone with the    *)
(* calls of Now and Add counted.                                           *)
(* SpecWatch is the clock with a timer, its tickers and the watch function,*)
(* SpecNested the whole package with the watch function calling the clock, *)
(* SpecPanic the package called with arguments it panics on, and SpecLive  *)
(* the package with calls that wait for the mutex, under fairness.         *)
(***************************************************************************)
EXTENDS Integers, Sequences, FiniteSets, TLC

\* ---------------------------------------------------------------- bounds
StartTime == 0          \* the time the clock is created at
Horizon == 3            \* Add and Now stop at StartTime + Horizon
MaxStep == 1            \* NewWithStep is called with a step in 0..MaxStep
MaxDur == 2             \* timer durations are in -1..MaxDur, periods in 1..MaxDur
MaxTimers == 2          \* the timers SpecTimer creates
MaxTickers == 2         \* the tickers SpecTicker creates
MaxNows == 3            \* the Now calls SpecNow counts
MaxDepth == 1           \* the calls on the clock made from inside the watch
                        \* function nest this deep in SpecNested

\* make(chan time.Time, 1)
ChanCap == 1

Threads == {"a", "b"}
TimerIds == 1..MaxTimers
TickerIds == 1..MaxTickers
Deltas == 0..Horizon
Durations == (-1)..MaxDur
Periods == 1..MaxDur
WatchFuncs == {"nil", "f"}
StepArgs == (-1)..MaxStep       \* the steps SpecPanic calls NewWithStep with
NegDeltas == {-1}               \* the deltas Add panics on in SpecPanic
NonPosPeriods == (-1)..0        \* the periods NewTicker panics on in SpecPanic
NoThread == "none"

VARIABLES
    step,       \* Clock.step
    now,        \* Clock.state.t
    timers,     \* Clock.state.timers: a sequence of timer ids
    tickers,    \* Clock.state.tickers: a sequence of ticker ids
    watch,      \* Clock.watch
    m,          \* Clock.m: the thread that holds the mutex, or NoThread
    tm,         \* the timers made so far: id -> timer struct
    tk,         \* the tickers made so far: id -> ticker struct
    th,         \* each thread's place in its call
    res,        \* the call that last unlocked, with what it returns, until the
                \* next call locks
    tmh,        \* history of each timer (not program state)
    tkh,        \* history of each ticker (not program state)
    scope,      \* what the specification lets the threads create and count
    built,      \* NewWithStep returned a clock (FALSE: it panicked)
    stack,      \* each thread's calls of the watch function that are waiting
                \* for a call the watch function made on the clock to return
    nNow,       \* history: the Now calls that ran (counted in SpecNow)
    sumAdd      \* history: the sum of the deltas Add added (counted in SpecNow)

vars == <<step, now, timers, tickers, watch, m, tm, tk, th, res, tmh, tkh,
          scope, built, stack, nNow, sumAdd>>

\* ------------------------------------------------------------ structures
\* type timer struct: c, time, fired (made: the struct has been allocated)
NoTimer == [made |-> FALSE, c |-> <<>>, time |-> 0, fired |-> FALSE]
\* type ticker struct: c, d, next
NoTicker == [made |-> FALSE, c |-> <<>>, d |-> 0, next |-> 0]
\* a thread that is in no call; in a call, w is the watch function the call
\* read under the mutex and args the arguments w is still to be called with
Idle == [pc |-> "idle", w |-> "nil", args |-> <<>>]
\* no call yet.  op is the operation, obj its timer or ticker (the one made,
\* for NewTimer and NewTicker), d its duration argument, ret the time and
\* active the boolean it returns, panicked whether it panicked instead
NoCall == [op |-> "none", obj |-> 0, d |-> 0, ret |-> 0, active |-> FALSE,
           panicked |-> FALSE]
\* history of a timer.  status: "pos" made by NewTimer(d > 0) and "imm" made by
\* NewTimer(d <= 0), neither Reset nor stopped since; "reset" and "stopped": the
\* last of Reset and Stop that acted on it.  delivered: a value was placed on
\* its channel since NewTimer or Reset last armed it
NoTimerHist == [status |-> "none", delivered |-> FALSE]
\* history of a ticker: Stop has acted on it; t0 is the time it was made at
NoTickerHist == [stopped |-> FALSE, t0 |-> 0]

\* -------------------------------------------------------------- channels
\* mutant of TrySend: a send on a full channel replaces the value in the slot
TrySendOverwrite(c, v) == IF Len(c) < ChanCap THEN Append(c, v) ELSE <<v>>

\* select { case c <- v: default: }
TrySend(c, v) == IF Len(c) < ChanCap THEN Append(c, v) ELSE c

\* ---------------------------------------------------------------- timers
\* mutant of fire: the timer sends its target time, not the clock's time
fireSendsTarget(t, nowv) == [t EXCEPT !.c = TrySend(t.c, t.time), !.fired = TRUE]

\* func (t *timer) fire(now)
fire(t, nowv) == [t EXCEPT !.c = TrySend(t.c, nowv), !.fired = TRUE]

\* mutant of update: the timer fires only once the clock is past its target
updateStrictlyAfter(t, nowv) ==
    IF t.fired \/ nowv <= t.time
    THEN [t |-> t, done |-> FALSE]
    ELSE [t |-> fire(t, nowv), done |-> TRUE]

\* func (t *timer) update(now) (done bool)
update(t, nowv) ==
    IF t.fired \/ nowv < t.time
    THEN [t |-> t, done |-> FALSE]
    ELSE [t |-> fire(t, nowv), done |-> TRUE]

\* mutant of init: the new target is d after the old target, not after now
initFromOldTarget(t, nowv, d) ==
    IF d > 0
    THEN [t EXCEPT !.time = t.time + d, !.fired = FALSE]
    ELSE fire([t EXCEPT !.time = nowv], nowv)

\* mutant of init: a zero duration arms the timer instead of firing it
initZeroArms(t, nowv, d) ==
    IF d >= 0
    THEN [t EXCEPT !.time = nowv + d, !.fired = FALSE]
    ELSE fire([t EXCEPT !.time = nowv], nowv)

\* func (t *timer) init(now, d) bool: the timer after init; init returns !t.fired
init(t, nowv, d) ==
    IF d > 0
    THEN [t EXCEPT !.time = nowv + d, !.fired = FALSE]
    ELSE fire([t EXCEPT !.time = nowv], nowv)

\* --------------------------------------------------------------- tickers
\* for !now.Before(t.next) { t.next = t.next.Add(t.d) }
RECURSIVE FastForward(_, _, _)
FastForward(next, d, nowv) ==
    IF nowv < next THEN next ELSE FastForward(next + d, d, nowv)

\* mutant of tickerUpdate: the deadline moves on by one period, with no loop
tickerUpdateOnePeriod(t, nowv) ==
    IF nowv < t.next
    THEN [t |-> t, d |-> 0]
    ELSE [t |-> [t EXCEPT !.c = TrySend(t.c, nowv), !.next = t.next + t.d],
          d |-> t.d]

\* mutant of tickerUpdate: the next deadline is one period after the time of
\* the tick
tickerUpdateFromNow(t, nowv) ==
    IF nowv < t.next
    THEN [t |-> t, d |-> 0]
    ELSE [t |-> [t EXCEPT !.c = TrySend(t.c, nowv), !.next = nowv + t.d],
          d |-> t.d]

\* mutant of tickerUpdate: a ticker whose value was dropped reports no tick
tickerUpdateDroppedIsZero(t, nowv) ==
    IF nowv < t.next
    THEN [t |-> t, d |-> 0]
    ELSE [t |-> [t EXCEPT !.c = TrySend(t.c, nowv),
                          !.next = FastForward(t.next, t.d, nowv)],
          d |-> IF Len(t.c) < ChanCap THEN t.d ELSE 0]

\* func (t *ticker) update(now) time.Duration
tickerUpdate(t, nowv) ==
    IF nowv < t.next
    THEN [t |-> t, d |-> 0]
    ELSE [t |-> [t EXCEPT !.c = TrySend(t.c, nowv),
                          !.next = FastForward(t.next, t.d, nowv)],
          d |-> t.d]

\* ----------------------------------------------------------------- state
\* the nil pointer a removed slot of the backing array is set to
Nil == 0

\* func (s *state) notifyTimers(): the timers of list[i..] updated in order;
\* left holds the timers kept so far (s.timers[:nleft])
RECURSIVE NotifyTimersFrom(_, _, _, _, _)
NotifyTimersFrom(i, list, left, tmf, nowv) ==
    IF i > Len(list)
    THEN [timers |-> left, tm |-> tmf]
    ELSE LET u == update(tmf[list[i]], nowv)
         IN NotifyTimersFrom(i + 1, list,
                             IF u.done THEN left ELSE Append(left, list[i]),
                             [tmf EXCEPT ![list[i]] = u.t], nowv)

notifyTimers(list, tmf, nowv) == NotifyTimersFrom(1, list, <<>>, tmf, nowv)

\* func (s *state) notifyTickers() (watches []time.Duration)
RECURSIVE NotifyTickersFrom(_, _, _, _, _)
NotifyTickersFrom(i, list, watches, tkf, nowv) ==
    IF i > Len(list)
    THEN [tk |-> tkf, watches |-> watches]
    ELSE LET u == tickerUpdate(tkf[list[i]], nowv)
         IN NotifyTickersFrom(i + 1, list,
                              IF u.d # 0 THEN Append(watches, u.d) ELSE watches,
                              [tkf EXCEPT ![list[i]] = u.t], nowv)

notifyTickers(list, tkf, nowv) == NotifyTickersFrom(1, list, <<>>, tkf, nowv)

\* mutant of addTimer: the timer is appended whether or not it is in the list
addTimerAppends(list, t) == Append(list, t)

\* func (s *state) addTimer(t)
addTimer(list, t) ==
    IF \E i \in 1..Len(list) : list[i] = t THEN list ELSE Append(list, t)

\* The loop of removeTimer and removeTicker: range reads the backing array arr
\* (of the length n0 the slice had when the loop began) at i; on a match the
\* slice arr[1..len] has its tail copied down one place, its last slot set to
\* nil and its length cut by one.
RECURSIVE RemoveFrom(_, _, _, _, _)
RemoveFrom(i, arr, len, n0, t) ==
    IF i > n0
    THEN SubSeq(arr, 1, len)
    ELSE IF arr[i] = t
         THEN RemoveFrom(i + 1,
                         [j \in 1..n0 |->
                            IF j >= i /\ j < len THEN arr[j + 1]
                            ELSE IF j = len THEN Nil ELSE arr[j]],
                         len - 1, n0, t)
         ELSE RemoveFrom(i + 1, arr, len, n0, t)

\* func (s *state) removeTimer(t)
removeTimer(list, t) == RemoveFrom(1, list, Len(list), Len(list), t)

\* mutant of removeTicker: when t is registered the last ticker is cut off
removeTickerLast(list, t) ==
    IF \E i \in 1..Len(list) : list[i] = t
    THEN SubSeq(list, 1, Len(list) - 1)
    ELSE list

\* func (s *state) removeTicker(t)
removeTicker(list, t) == RemoveFrom(1, list, Len(list), Len(list), t)

\* ------------------------------------------------------------------ Init
\* NewWithStep(start, s) (New is NewWithStep(t, 0)): the clock it returns, or
\* no clock when it panics (s < 0).  sc is the scope of the specification: the
\* timers and tickers its threads make, how deep the watch function's own calls
\* on the clock nest, the time its clock ends at and whether it counts the Now
\* and Add calls
NewWithStep(s, sc) ==
    /\ step = IF s < 0 THEN 0 ELSE s
    /\ now = StartTime
    /\ timers = <<>>
    /\ tickers = <<>>
    /\ watch = "nil"
    /\ m = NoThread
    /\ tm = [t \in TimerIds |-> NoTimer]
    /\ tk = [k \in TickerIds |-> NoTicker]
    /\ th = [self \in Threads |-> Idle]
    /\ res = IF s < 0
             THEN [NoCall EXCEPT !.op = "NewWithStep", !.d = s, !.panicked = TRUE]
             ELSE NoCall
    /\ tmh = [t \in TimerIds |-> NoTimerHist]
    /\ tkh = [k \in TickerIds |-> NoTickerHist]
    /\ scope = sc
    /\ built = (s >= 0)
    /\ stack = [self \in Threads |-> <<>>]
    /\ nNow = 0
    /\ sumAdd = 0

\* the clocks of a specification: NewWithStep with a step in 0..MaxStep
InitScope(sc) == \E s \in 0..MaxStep : NewWithStep(s, sc)

\* the whole package, with one timer and one ticker
Init == InitScope([timers |-> 1, tickers |-> 1, depth |-> 0, counted |-> FALSE,
                   end |-> StartTime + Horizon - 1])
\* the clock and its timers
InitTimer == InitScope([timers |-> MaxTimers, tickers |-> 0, depth |-> 0,
                        counted |-> FALSE,
                        end |-> StartTime + Horizon])
\* the clock, its tickers and the watch function
InitTicker == InitScope([timers |-> 0, tickers |-> MaxTickers, depth |-> 0,
                         counted |-> FALSE,
                         end |-> StartTime + Horizon])
\* the clock alone, its Now and Add calls counted
InitNow == InitScope([timers |-> 0, tickers |-> 0, depth |-> 0, counted |-> TRUE,
                      end |-> StartTime + Horizon])

\* the whole package, the watch function making calls on the clock
InitNested == InitScope([timers |-> 1, tickers |-> 1, depth |-> MaxDepth,
                         counted |-> FALSE, end |-> StartTime + 1])

\* the clock with a timer, its tickers and the watch function
InitWatch == InitScope([timers |-> 1, tickers |-> MaxTickers, depth |-> 0,
                        counted |-> FALSE, end |-> StartTime + Horizon - 1])

\* the whole package, called with arguments it panics on as well
InitPanic ==
    \E s \in StepArgs :
        NewWithStep(s, [timers |-> 1, tickers |-> 1, depth |-> 0,
                        counted |-> FALSE, end |-> StartTime + Horizon - 1])

\* the whole package, its calls waiting for the mutex
InitLive == InitScope([timers |-> 1, tickers |-> 1, depth |-> 0,
                       counted |-> FALSE, end |-> StartTime + 1])

\* ----------------------------------------------------------------- calls
MadeTimers == {t \in TimerIds : tm[t].made}
MadeTickers == {k \in TickerIds : tk[k].made}

\* A thread calls an operation and finds the mutex taken: it waits in
\* clock.m.Lock().  (Lock alone is the call that finds the mutex free.)
Invoke(self) ==
    /\ built
    /\ th[self].pc = "idle"
    /\ m # NoThread
    /\ th' = [th EXCEPT ![self] = [Idle EXCEPT !.pc = "calling"]]
    /\ UNCHANGED <<step, now, timers, tickers, watch, m, tm, tk, res, tmh, tkh,
                   scope, built, stack, nNow, sumAdd>>

\* clock.m.Lock() of do, newWatcher and SetWatchFunc, with the w := clock.watch
\* that do and newWatcher read under the mutex
Lock(self) ==
    /\ built
    /\ \/ th[self].pc \in {"idle", "calling"} /\ stack' = stack
       \/ /\ th[self].pc = "unlocked"
          /\ Len(stack[self]) < scope.depth
          /\ stack' = [stack EXCEPT ![self] =
                         <<[w |-> th[self].w, args |-> th[self].args]>> \o @]
    /\ m = NoThread
    /\ m' = self
    /\ th' = [th EXCEPT ![self] = [pc |-> "locked", w |-> watch, args |-> <<>>]]
    /\ res' = NoCall
    /\ UNCHANGED <<step, now, timers, tickers, watch, tm, tk, tmh, tkh,
                   scope, built, nNow, sumAdd>>

\* Where a thread is once its call is to call w with each of args: in the
\* first w(d) of the loop; or, with nothing to call, returned: to no call or,
\* when the call was made by the watch function (whose call is on top of stk),
\* to the watch function, which returns to the loop that called it.
RECURSIVE After(_, _, _)
After(w, args, stk) ==
    IF w # "nil" /\ args # <<>>
    THEN [th |-> [pc |-> "unlocked", w |-> w, args |-> args], stack |-> stk]
    ELSE IF stk = <<>>
         THEN [th |-> Idle, stack |-> <<>>]
         ELSE After(Head(stk).w, Tail(Head(stk).args), Tail(stk))

\* mutant of Unlock: the mutex is kept while the watch function is called
UnlockAfterWatch(self, args) ==
    LET a == After(th[self].w, args, stack[self])
    IN /\ m' = IF a.th.pc = "unlocked" THEN self ELSE NoThread
       /\ th' = [th EXCEPT ![self] = a.th]
       /\ stack' = [stack EXCEPT ![self] = a.stack]

\* clock.m.Unlock() and what follows it in do and newWatcher:
\* if w != nil { for _, d := range args { w(d) } }, then the return
Unlock(self, args) ==
    LET a == After(th[self].w, args, stack[self])
    IN /\ m' = NoThread
       /\ th' = [th EXCEPT ![self] = a.th]
       /\ stack' = [stack EXCEPT ![self] = a.stack]

\* history: a timer has delivered once a value is placed on its channel
Delivered(h, before, after) ==
    [t \in TimerIds |->
        [h[t] EXCEPT !.delivered = @ \/ Len(after[t].c) > Len(before[t].c)]]

\* func (clock *Clock) do(f), after f(s) has left the time t1, the timers
\* timers1 (structs tm1) and the tickers tickers1: the notification when the
\* time changed, and the unlock
do(self, t1, timers1, tm1, tickers1, tmh1) ==
    LET moved == t1 # now
        nt == IF moved THEN notifyTimers(timers1, tm1, t1)
                       ELSE [timers |-> timers1, tm |-> tm1]
        nk == IF moved THEN notifyTickers(tickers1, tk, t1)
                       ELSE [tk |-> tk, watches |-> <<>>]
    IN /\ now' = t1
       /\ timers' = nt.timers
       /\ tm' = nt.tm
       /\ tickers' = tickers1
       /\ tk' = nk.tk
       /\ Unlock(self, nk.watches)
       /\ tmh' = Delivered(tmh1, tm, nt.tm)
       /\ UNCHANGED <<step, watch, scope, built>>

\* mutant of newWatcher: the watch function is called for a duration that arms
\* the timer, and not for one that fires it at once
newWatcherWhenArmed(self, d, timers1, tm1, tickers1, tk1, tmh1) ==
    /\ timers' = timers1
    /\ tm' = tm1
    /\ tickers' = tickers1
    /\ tk' = tk1
    /\ Unlock(self, IF d > 0 THEN <<d>> ELSE <<>>)
    /\ tmh' = Delivered(tmh1, tm, tm1)
    /\ UNCHANGED <<step, now, watch, scope, built, nNow, sumAdd>>

\* func (clock *Clock) newWatcher(d, f), after f(&clock.state)
newWatcher(self, d, timers1, tm1, tickers1, tk1, tmh1) ==
    /\ timers' = timers1
    /\ tm' = tm1
    /\ tickers' = tickers1
    /\ tk' = tk1
    /\ Unlock(self, <<d>>)
    /\ tmh' = Delivered(tmh1, tm, tm1)
    /\ UNCHANGED <<step, now, watch, scope, built, nNow, sumAdd>>

Locked(self) == th[self].pc = "locked" /\ m = self

\* mutant of Now: it adds the step and notifies no timer and no ticker
NowSkipsNotify(self) ==
    /\ Locked(self)
    /\ now + step <= scope.end
    /\ scope.counted => nNow < MaxNows
    /\ now' = now + step
    /\ Unlock(self, <<>>)
    /\ res' = [NoCall EXCEPT !.op = "Now", !.ret = now]
    /\ nNow' = IF scope.counted THEN nNow + 1 ELSE nNow
    /\ UNCHANGED <<step, timers, tickers, watch, tm, tk, tmh, tkh, scope, built,
                   sumAdd>>

\* mutant of Now: it returns the time after the step was added
NowReturnsAfter(self) ==
    /\ Locked(self)
    /\ now + step <= scope.end
    /\ scope.counted => nNow < MaxNows
    /\ do(self, now + step, timers, tm, tickers, tmh)
    /\ res' = [NoCall EXCEPT !.op = "Now", !.ret = now + step]
    /\ nNow' = IF scope.counted THEN nNow + 1 ELSE nNow
    /\ UNCHANGED <<tkh, sumAdd>>

\* func (clock *Clock) Now() time.Time
Now(self) ==
    /\ Locked(self)
    /\ now + step <= scope.end
    /\ scope.counted => nNow < MaxNows
    /\ do(self, now + step, timers, tm, tickers, tmh)
    /\ res' = [NoCall EXCEPT !.op = "Now", !.ret = now]
    /\ nNow' = IF scope.counted THEN nNow + 1 ELSE nNow
    /\ UNCHANGED <<tkh, sumAdd>>

\* func (clock *Clock) Add(delta), delta >= 0
Add(self) ==
    /\ Locked(self)
    /\ \E delta \in Deltas :
        /\ now + delta <= scope.end
        /\ do(self, now + delta, timers, tm, tickers, tmh)
        /\ res' = [NoCall EXCEPT !.op = "Add", !.d = delta]
        /\ sumAdd' = IF scope.counted THEN sumAdd + delta ELSE sumAdd
    /\ UNCHANGED <<tkh, nNow>>

\* mutant of AddNegative: the negative delta is added to the time
AddNegativeApplies(self) ==
    /\ built
    /\ th[self].pc = "idle"
    /\ \E delta \in NegDeltas :
        /\ now' = now + delta
        /\ res' = [NoCall EXCEPT !.op = "Add", !.d = delta]
    /\ UNCHANGED <<step, timers, tickers, watch, m, tm, tk, th, tmh, tkh,
                   scope, built, stack, nNow, sumAdd>>

\* func (clock *Clock) Add(delta), delta < 0: the panic, before do is called
AddNegative(self) ==
    /\ built
    /\ th[self].pc = "idle"
    /\ \E delta \in NegDeltas :
        res' = [NoCall EXCEPT !.op = "Add", !.d = delta, !.panicked = TRUE]
    /\ UNCHANGED <<step, now, timers, tickers, watch, m, tm, tk, th, tmh, tkh,
                   scope, built, stack, nNow, sumAdd>>

\* mutant of Peek: it adds the step as Now does
PeekSteps(self) ==
    /\ Locked(self)
    /\ now + step <= scope.end
    /\ do(self, now + step, timers, tm, tickers, tmh)
    /\ res' = [NoCall EXCEPT !.op = "Peek", !.ret = now]
    /\ UNCHANGED <<tkh, nNow, sumAdd>>

\* func (clock *Clock) Peek() time.Time
Peek(self) ==
    /\ Locked(self)
    /\ do(self, now, timers, tm, tickers, tmh)
    /\ res' = [NoCall EXCEPT !.op = "Peek", !.ret = now]
    /\ UNCHANGED <<tkh, nNow, sumAdd>>

\* func (clock *Clock) NewTimer(d) clock.Timer
NewTimer(self) ==
    /\ Locked(self)
    /\ Cardinality(MadeTimers) < scope.timers
    /\ \E d \in Durations :
        LET id == Cardinality(MadeTimers) + 1
            t == init([NoTimer EXCEPT !.made = TRUE], now, d)
        IN /\ newWatcher(self, d,
                         IF ~t.fired THEN Append(timers, id) ELSE timers,
                         [tm EXCEPT ![id] = t], tickers, tk,
                         [tmh EXCEPT ![id].status = IF d > 0 THEN "pos" ELSE "imm"])
           /\ res' = [NoCall EXCEPT !.op = "NewTimer", !.obj = id, !.d = d]
    /\ UNCHANGED tkh

\* func (clock *Clock) NewTicker(d) clock.Ticker, d > 0
NewTicker(self) ==
    /\ Locked(self)
    /\ Cardinality(MadeTickers) < scope.tickers
    /\ \E d \in Periods :
        LET id == Cardinality(MadeTickers) + 1
        IN /\ newWatcher(self, d, timers, tm, Append(tickers, id),
                         [tk EXCEPT ![id] = [made |-> TRUE, c |-> <<>>,
                                             d |-> d, next |-> now + d]],
                         tmh)
           /\ res' = [NoCall EXCEPT !.op = "NewTicker", !.obj = id, !.d = d]
           /\ tkh' = [tkh EXCEPT ![id].t0 = now]

\* func (clock *Clock) NewTicker(d), d <= 0: the panic, before newWatcher is
\* called
NewTickerNonPositive(self) ==
    /\ built
    /\ th[self].pc = "idle"
    /\ \E d \in NonPosPeriods :
        res' = [NoCall EXCEPT !.op = "NewTicker", !.d = d, !.panicked = TRUE]
    /\ UNCHANGED <<step, now, timers, tickers, watch, m, tm, tk, th, tmh, tkh,
                   scope, built, stack, nNow, sumAdd>>

\* func (t *timer) Reset(d) bool
Reset(self) ==
    /\ Locked(self)
    /\ \E id \in MadeTimers, d \in Durations :
        LET t == init(tm[id], now, d)
        IN /\ newWatcher(self, d,
                         IF ~t.fired THEN addTimer(timers, id)
                                     ELSE removeTimer(timers, id),
                         [tm EXCEPT ![id] = t], tickers, tk,
                         [tmh EXCEPT ![id] = [status |-> "reset", delivered |-> FALSE]])
           /\ res' = [NoCall EXCEPT !.op = "Reset", !.obj = id, !.d = d,
                                    !.active = ~tm[id].fired]
    /\ UNCHANGED tkh

\* mutant of Stop: it removes the timer and does not set its fired flag
StopLeavesFlag(self) ==
    /\ Locked(self)
    /\ \E id \in MadeTimers :
        /\ do(self, now, removeTimer(timers, id), tm, tickers,
              [tmh EXCEPT ![id].status = "stopped"])
        /\ res' = [NoCall EXCEPT !.op = "Stop", !.obj = id, !.active = ~tm[id].fired]
    /\ UNCHANGED <<tkh, nNow, sumAdd>>

\* func (t *timer) Stop() bool
Stop(self) ==
    /\ Locked(self)
    /\ \E id \in MadeTimers :
        /\ do(self, now, removeTimer(timers, id), [tm EXCEPT ![id].fired = TRUE],
              tickers, [tmh EXCEPT ![id].status = "stopped"])
        /\ res' = [NoCall EXCEPT !.op = "Stop", !.obj = id, !.active = ~tm[id].fired]
    /\ UNCHANGED <<tkh, nNow, sumAdd>>

\* func (t *ticker) Stop()
TickerStop(self) ==
    /\ Locked(self)
    /\ \E id \in MadeTickers :
        /\ do(self, now, timers, tm, removeTicker(tickers, id), tmh)
        /\ res' = [NoCall EXCEPT !.op = "TickerStop", !.obj = id]
        /\ tkh' = [tkh EXCEPT ![id].stopped = TRUE]
    /\ UNCHANGED <<nNow, sumAdd>>

\* mutant of SetWatchFunc: it returns without unlocking the mutex
SetWatchFuncKeepsMutex(self) ==
    /\ Locked(self)
    /\ \E f \in WatchFuncs : watch' = f
    /\ th' = [th EXCEPT ![self] = Idle]
    /\ res' = [NoCall EXCEPT !.op = "SetWatchFunc"]
    /\ UNCHANGED <<step, now, timers, tickers, m, tm, tk, tmh, tkh, scope, built,
                   stack, nNow, sumAdd>>

\* func (clock *Clock) SetWatchFunc(f)
SetWatchFunc(self) ==
    /\ Locked(self)
    /\ \E f \in WatchFuncs : watch' = f
    /\ Unlock(self, <<>>)
    /\ res' = [NoCall EXCEPT !.op = "SetWatchFunc"]
    /\ UNCHANGED <<step, now, timers, tickers, tm, tk, tmh, tkh, scope, built,
                   nNow, sumAdd>>

\* mutant of Callback: the loop reads clock.watch before each call and makes no
\* more calls once it is nil
CallbackReadsWatch(self) ==
    /\ th[self].pc = "unlocked"
    /\ LET a == After(watch, Tail(th[self].args), stack[self])
       IN /\ th' = [th EXCEPT ![self] =
                       IF a.th.pc = "unlocked"
                       THEN [a.th EXCEPT !.w = th[self].w]
                       ELSE a.th]
          /\ stack' = [stack EXCEPT ![self] = a.stack]
    /\ UNCHANGED <<step, now, timers, tickers, watch, m, tm, tk, res, tmh, tkh,
                   scope, built, nNow, sumAdd>>

\* one w(d) of the loop over args that follows the unlock returns; the call
\* returns after the last
Callback(self) ==
    /\ th[self].pc = "unlocked"
    /\ LET a == After(th[self].w, Tail(th[self].args), stack[self])
       IN /\ th' = [th EXCEPT ![self] = a.th]
          /\ stack' = [stack EXCEPT ![self] = a.stack]
    /\ UNCHANGED <<step, now, timers, tickers, watch, m, tm, tk, res, tmh, tkh,
                   scope, built, nNow, sumAdd>>

\* <-timer.C() by the timer's user
Recv(t) ==
    /\ tm[t].made
    /\ tm[t].c # <<>>
    /\ tm' = [tm EXCEPT ![t].c = Tail(@)]
    /\ UNCHANGED <<step, now, timers, tickers, watch, m, tk, th, res, tmh, tkh,
                   scope, built, stack, nNow, sumAdd>>

\* <-ticker.C() by the ticker's user
TickerRecv(k) ==
    /\ tk[k].made
    /\ tk[k].c # <<>>
    /\ tk' = [tk EXCEPT ![k].c = Tail(@)]
    /\ UNCHANGED <<step, now, timers, tickers, watch, m, tm, th, res, tmh, tkh,
                   scope, built, stack, nNow, sumAdd>>

\* -------------------------------------------------------- specifications
Next ==
    \/ \E self \in Threads :
        \/ Lock(self)
        \/ Now(self)
        \/ Add(self)
        \/ Peek(self)
        \/ NewTimer(self)
        \/ NewTicker(self)
        \/ Reset(self)
        \/ Stop(self)
        \/ TickerStop(self)
        \/ SetWatchFunc(self)
        \/ Callback(self)
    \/ \E t \in TimerIds : Recv(t)
    \/ \E k \in TickerIds : TickerRecv(k)

Spec == Init /\ [][Next]_vars

NextTimer ==
    \/ \E self \in Threads :
        \/ Lock(self)
        \/ Now(self)
        \/ Add(self)
        \/ Peek(self)
        \/ NewTimer(self)
        \/ Reset(self)
        \/ Stop(self)
    \/ \E t \in TimerIds : Recv(t)

SpecTimer == InitTimer /\ [][NextTimer]_vars

NextTicker ==
    \/ \E self \in Threads :
        \/ Lock(self)
        \/ Now(self)
        \/ Add(self)
        \/ NewTicker(self)
        \/ TickerStop(self)
        \/ SetWatchFunc(self)
        \/ Callback(self)
    \/ \E k \in TickerIds : TickerRecv(k)

SpecTicker == InitTicker /\ [][NextTicker]_vars

NextNow ==
    \E self \in Threads :
        \/ Lock(self)
        \/ Now(self)
        \/ Add(self)
        \/ Peek(self)

SpecNow == InitNow /\ [][NextNow]_vars

NextWatch ==
    \E self \in Threads :
        \/ Lock(self)
        \/ Now(self)
        \/ Add(self)
        \/ Peek(self)
        \/ NewTimer(self)
        \/ NewTicker(self)
        \/ TickerStop(self)
        \/ SetWatchFunc(self)
        \/ Callback(self)

SpecWatch == InitWatch /\ [][NextWatch]_vars

NextPanic ==
    \/ \E self \in Threads :
        \/ Lock(self)
        \/ Now(self)
        \/ Add(self)
        \/ AddNegative(self)
        \/ NewTimer(self)
        \/ NewTicker(self)
        \/ NewTickerNonPositive(self)
        \/ SetWatchFunc(self)
        \/ Callback(self)
    \/ \E k \in TickerIds : TickerRecv(k)

SpecPanic == InitPanic /\ [][NextPanic]_vars

\* what a thread does once it has the mutex, until its call returns
InCall(self) ==
    \/ Now(self)
    \/ Add(self)
    \/ Peek(self)
    \/ NewTimer(self)
    \/ NewTicker(self)
    \/ Reset(self)
    \/ Stop(self)
    \/ TickerStop(self)
    \/ SetWatchFunc(self)
    \/ Callback(self)

NextNested == \E self \in Threads : Lock(self) \/ InCall(self)

SpecNested == InitNested /\ [][NextNested]_vars

\* clock.m.Lock() returns to a thread that waited in it
LockWaiting(self) == th[self].pc = "calling" /\ Lock(self)

NextLive == \E self \in Threads : Invoke(self) \/ Lock(self) \/ InCall(self)

\* A thread that has the mutex, or is calling the watch function, goes on (the
\* scheduler runs every thread that can run, and the watch function returns);
\* a thread that waits for the mutex gets it (sync.Mutex hands the mutex to a
\* waiter that has failed to get it for long, so others cannot overtake it
\* forever).
SpecLive ==
    /\ InitLive
    /\ [][NextLive]_vars
    /\ \A self \in Threads : WF_vars(InCall(self)) /\ SF_vars(LockWaiting(self))

\* ------------------------------------------------------------ properties
Range(list) == {list[i] : i \in 1..Len(list)}

\* this step is the critical section of a call of op: res', which the call's
\* Lock cleared, is the call
Ran(op) == res.op = "none" /\ res'.op = op

\* this step places a value on timer t's channel
Placed(t) == Len(tm'[t].c) > Len(tm[t].c)

\* what C1 asks of every step, for every timer
C1Step ==
    \A t \in TimerIds :
        /\ (Ran("NewTimer") /\ res'.obj = t /\ res'.d > 0) =>
              /\ tm'[t].time = now + res'.d
              /\ tm'[t].c = <<>>
              /\ tmh'[t].status = "pos"
        /\ (tmh[t].status = "pos" /\ tmh'[t].status = "pos") =>
              /\ tm'[t].time = tm[t].time
              /\ now' < tm[t].time => tm'[t].c = <<>>
              /\ (now < tm[t].time /\ now' >= tm[t].time) =>
                    (tm[t].c = <<>> /\ Len(tm'[t].c) = 1)
              /\ now >= tm[t].time => ~Placed(t)

\* C1: a timer made by NewTimer(d), d > 0, at time T and never Reset or
\* stopped has the target T + d; nothing is on its channel while the clock is
\* below T + d, the step that takes the clock from below T + d to T + d or
\* beyond places exactly one value on the empty channel, and once the clock
\* is at T + d or beyond no step places another.
C1_FiresOnceAtDeadline == [][C1Step]_vars

\* a timer made with d > 0 and left alone has delivered at its target, and the
\* clock has since moved on with that one value still on the channel
C1_Witness ==
    \E t \in TimerIds :
        /\ tmh[t].status = "pos"
        /\ tm[t].c = <<tm[t].time>>
        /\ now > tm[t].time

\* what C2 as stated asks of every step: the value delivered is the target
C2Orig ==
    \A t \in TimerIds :
        (/\ tmh[t].status = "pos"
         /\ tmh'[t].status = "pos"
         /\ now < tm[t].time
         /\ now' >= tm[t].time) => tm'[t].c = <<tm[t].time>>

\* C2 as stated: the value a timer made with d > 0 at time T delivers, when
\* the clock reaches or passes T + d, is T + d.
C2_DeliversDeadline == [][C2Orig]_vars

\* what C2 as amended asks of every step: the value delivered is the new time
C2Amended ==
    \A t \in TimerIds :
        (/\ tmh[t].status = "pos"
         /\ tmh'[t].status = "pos"
         /\ now < tm[t].time
         /\ now' >= tm[t].time) =>
            /\ tm'[t].c = <<now'>>
            /\ tm'[t].c[1] >= tm[t].time
            /\ now' = tm[t].time => tm'[t].c = <<tm[t].time>>

\* C2 as amended: the value delivered is the clock's time after the step that
\* reaches or passes T + d: never below T + d, and T + d when the clock lands
\* on it.
C2_DeliversClockTime == [][C2Amended]_vars

\* a single Add took the clock past the target: the value delivered is later
\* than T + d
C2_Witness ==
    \E t \in TimerIds :
        /\ tmh[t].status = "pos"
        /\ res.op = "Add"
        /\ now - res.d < tm[t].time
        /\ now > tm[t].time
        /\ tm[t].c = <<now>>

\* what C3 asks of every step
C3Step ==
    /\ (m # NoThread /\ m' = m) => \A t \in TimerIds : tm'[t].fired = tm[t].fired
    /\ Ran("Stop") =>
          /\ res'.active = ~tm[res'.obj].fired
          /\ res'.active => ~tmh[res'.obj].delivered
          /\ tm'[res'.obj].fired
          /\ tmh'[res'.obj].status = "stopped"
    /\ \A t \in TimerIds :
          (tmh[t].status = "stopped" /\ tmh'[t].status = "stopped") =>
              /\ ~Placed(t)
              /\ tm'[t].fired
              /\ tmh'[t].delivered = tmh[t].delivered

\* C3: Stop returns whether the fired flag was false when it ran, which is
\* what it was when Stop took the mutex (no step changes a fired flag while a
\* thread holds the mutex); a Stop that returns true found nothing delivered
\* since the timer was last armed; and from Stop on, until a Reset, no step
\* places a value on the timer's channel.
C3_StopCancels == [][C3Step]_vars

\* Stop has returned true for a pending timer that had delivered nothing
C3_Witness ==
    /\ res.op = "Stop"
    /\ res.active
    /\ tm[res.obj].c = <<>>
    /\ tm[res.obj].time > now
    /\ tmh[res.obj].status = "stopped"

\* What Reset(d) returns and leaves: true exactly for a timer whose fired flag
\* was false; with d > 0 the timer registered once, not fired, its target the
\* clock's time + d, nothing placed; with d <= 0 the timer fired and not
\* registered, the clock's time placed on its channel unless the slot is full.
C4ResetStep ==
    Ran("Reset") =>
        LET t == res'.obj
            d == res'.d
        IN /\ res'.active = ~tm[t].fired
           /\ now' = now
           /\ d > 0 =>
                /\ tm'[t].time = now + d
                /\ ~tm'[t].fired
                /\ Cardinality({i \in 1..Len(timers') : timers'[i] = t}) = 1
                /\ tm'[t].c = tm[t].c
           /\ d <= 0 =>
                /\ tm'[t].fired
                /\ t \notin Range(timers')
                /\ tm'[t].c = IF tm[t].c = <<>> THEN <<now>> ELSE tm[t].c

\* a timer that was Reset, and is not Reset again or stopped, has nothing
\* placed on its channel by a step that leaves the clock below its new target
C4NothingEarly ==
    \A t \in TimerIds :
        (/\ tmh[t].status = "reset"
         /\ tmh'[t].status = "reset"
         /\ ~Ran("Reset")
         /\ now' < tm[t].time) => (~Placed(t) /\ tm'[t].fired = tm[t].fired)

\* the step that takes the clock to the new target of a pending timer
AtNewTarget(t) ==
    /\ tmh[t].status = "reset"
    /\ ~Ran("Reset")
    /\ ~tm[t].fired
    /\ now < tm[t].time
    /\ now' >= tm[t].time

\* what C4 as stated asks of every step: a value is placed at the new target
C4Orig ==
    /\ C4ResetStep
    /\ C4NothingEarly
    /\ \A t \in TimerIds : AtNewTarget(t) => (tm'[t].fired /\ Placed(t))

\* C4 as stated: Reset returns whether the timer was pending, arms it for the
\* clock's time + d (d > 0) or attempts a delivery at once (d <= 0); the timer
\* delivers nothing before its new target, and delivers when the clock
\* reaches it.
C4_ResetDelivers == [][C4Orig]_vars

\* what C4 as amended asks of every step: a delivery is attempted at the new target
C4Amended ==
    /\ C4ResetStep
    /\ C4NothingEarly
    /\ \A t \in TimerIds :
          AtNewTarget(t) =>
              /\ tm'[t].fired
              /\ tm'[t].c = IF tm[t].c = <<>> THEN <<now'>> ELSE tm[t].c

\* C4 as amended: when the clock reaches the new target the timer fires and a
\* delivery of the clock's time is attempted: the value is placed when the
\* channel's slot is empty and dropped when an earlier value is still in it.
C4_ResetAttempts == [][C4Amended]_vars

\* an Add took the clock to the new target of a timer that was Reset with an
\* earlier value still on its channel: the timer fired and delivered nothing
C4_Witness ==
    \E t \in TimerIds :
        /\ tmh[t].status = "reset"
        /\ res.op = "Add"
        /\ now - res.d < tm[t].time
        /\ now >= tm[t].time
        /\ tm[t].fired
        /\ ~tmh[t].delivered
        /\ tm[t].c # <<>>

\* what C5 asks of every step that changes the time
C5Step ==
    now' # now =>
        \A k \in Range(tickers) :
            /\ Len(tk'[k].c) <= Len(tk[k].c) + 1
            /\ (tk[k].next <= now' /\ tk[k].c = <<>>) => tk'[k].c = <<now'>>
            /\ tk[k].next > now' => tk'[k] = tk[k]
            /\ tk'[k].next > now'
            /\ tk'[k].d = tk[k].d

\* C5: in a step that changes the time, every registered ticker gets at most
\* one value; one whose deadline is reached gets the new time on its channel
\* if the slot is empty, one whose deadline is not reached is left alone, and
\* every registered ticker's deadline is beyond the new time after the step.
C5_TickerCoalesces == [][C5Step]_vars

\* one Add crossed three periods of a registered ticker and left one value
C5_Witness ==
    \E k \in Range(tickers) :
        /\ res.op = "Add"
        /\ res.d >= 3 * tk[k].d
        /\ tk[k].next <= now + tk[k].d
        /\ tk[k].next - tk[k].d > now - res.d
        /\ tk[k].c = <<now>>

\* the tickers that were made, are not stopped and are due at time t1
DueTickers(t1) ==
    {k \in TickerIds : tk[k].made /\ ~tkh[k].stopped /\ tk[k].next <= t1}

\* what C6 asks of every step
C6Step ==
    /\ \A k \in TickerIds :
          tkh[k].stopped =>
              /\ k \notin Range(tickers)
              /\ k \notin Range(tickers')
              /\ Len(tk'[k].c) <= Len(tk[k].c)
              /\ tk'[k].next = tk[k].next
    /\ \A self \in Threads :
          (th[self].pc = "locked" /\ th'[self].pc # "locked" /\ now' # now) =>
              IF th[self].w = "nil"
              THEN th'[self] = Idle
              ELSE Len(th'[self].args) = Cardinality(DueTickers(now'))
    /\ Ran("TickerStop") =>
          /\ tickers' = SelectSeq(tickers, LAMBDA x : x # res'.obj)
          /\ tk' = tk
          /\ now' = now
          /\ watch' = watch
          /\ tkh[res'.obj].stopped => tickers' = tickers

C7Inv ==
    /\ \A t \in TimerIds : Len(tm[t].c) <= 1
    /\ \A k \in TickerIds : Len(tk[k].c) <= 1

\* what C7 asks of every step
C7Step ==
    /\ \A t \in TimerIds :
          tm[t].c # <<>> =>
              /\ tm'[t].c \in {tm[t].c, <<>>}
              /\ (/\ t \in Range(timers)
                  /\ ~tm[t].fired
                  /\ now' # now
                  /\ tm[t].time <= now') =>
                    (tm'[t].c = tm[t].c /\ tm'[t].fired /\ m' = NoThread)
              /\ (Ran("Reset") /\ res'.obj = t /\ res'.d <= 0) =>
                    (tm'[t].c = tm[t].c /\ tm'[t].fired /\ m' = NoThread)
    /\ \A k \in TickerIds :
          tk[k].c # <<>> =>
              /\ tk'[k].c \in {tk[k].c, <<>>}
              /\ (k \in Range(tickers) /\ now' # now /\ tk[k].next <= now') =>
                    (tk'[k].c = tk[k].c /\ tk'[k].next > now' /\ m' = NoThread)

\* C7: no channel holds more than one value; a value on a channel is only
\* ever received, never replaced; and a step that attempts a delivery on a
\* full slot (a timer that comes due, a Reset with d <= 0, a ticker that comes
\* due) leaves the value, unlocks, and sets the fired flag or moves the
\* ticker's deadline beyond the new time all the same.
C7_OneSlotDropsWhenFull == []C7Inv /\ [][C7Step]_vars

\* a timer fired with its slot full (fired, nothing delivered since it was
\* Reset, an older value still there) and a ticker came due with its slot
\* full (the value there is older than its last deadline)
C7_Witness ==
    /\ \E t \in TimerIds :
          /\ tmh[t].status = "reset"
          /\ tm[t].fired
          /\ ~tmh[t].delivered
          /\ tm[t].c # <<>>
          /\ tm[t].c[1] < tm[t].time
    /\ \E k \in Range(tickers) :
          /\ tk[k].c # <<>>
          /\ tk[k].c[1] < tk[k].next - tk[k].d

\* what C8 asks of every step
C8Step ==
    /\ now' >= now
    /\ step' = step
    /\ Ran("Add") => now' = now + res'.d
    /\ Ran("Now") => now' = now + step
    /\ now' # now => (Ran("Add") \/ Ran("Now"))

\* C8: no step decreases the time or changes the step; Add changes the time
\* by its delta, Now by the step, and no other step changes it.
C8_TimeMonotonic == [][C8Step]_vars

\* Now on a stepped clock has moved the time, after timers, tickers and the
\* watch function were in use
C8_Witness ==
    /\ res.op = "Now"
    /\ step > 0
    /\ now > StartTime + step
    /\ watch # "nil"
    /\ MadeTimers # {}
    /\ MadeTickers # {}

\* what C9 asks of every step
C9Step ==
    Ran("Now") =>
        /\ res'.ret = StartTime + nNow * step + sumAdd
        /\ sumAdd = 0 => res'.ret = StartTime + nNow * step
        /\ (sumAdd = 0 /\ step = 0) => res'.ret = StartTime
        /\ nNow' = nNow + 1
        /\ now' = res'.ret + step

\* C9: the Now call that runs after nNow others returns the start time plus
\* nNow steps plus what Add added (nothing, with no Add calls), and leaves the
\* time one step later: the calls of several threads return the start time,
\* the start time + step, ... in the order they take the mutex, and all
\* return the start time when the step is 0.
C9_NowReturnsSteps == [][C9Step]_vars

\* the last of MaxNows calls of Now on a stepped clock, with no Add
C9_Witness ==
    /\ res.op = "Now"
    /\ nNow = MaxNows
    /\ step > 0
    /\ sumAdd = 0
    /\ res.ret = StartTime + (MaxNows - 1) * step

\* what C10 asks of every step
C10Step ==
    /\ (Ran("NewTimer") /\ res'.d <= 0) =>
          /\ tm'[res'.obj].c = <<now>>
          /\ tm'[res'.obj].fired
          /\ res'.obj \notin Range(timers')
          /\ now' = now
          /\ tmh'[res'.obj].status = "imm"
    /\ \A t \in TimerIds :
          (tmh[t].status = "imm" /\ tmh'[t].status = "imm") =>
              /\ ~Placed(t)
              /\ tm'[t].fired
              /\ t \notin Range(timers')

\* C10: NewTimer(d) with d <= 0 places the clock's time on the new timer's
\* channel, leaves it fired and not registered and the time unchanged; until
\* a Reset, no step places another value on its channel or registers it.
C10_ImmediateTimer == [][C10Step]_vars

\* a timer made with d <= 0 delivered the time it was made at; the value was
\* received and the clock has moved on, with nothing more on the channel
C10_Witness ==
    \E t \in TimerIds :
        /\ tmh[t].status = "imm"
        /\ tm[t].c = <<>>
        /\ tmh[t].delivered
        /\ now > tm[t].time

\* the mutex is held by the threads that are between Lock and Unlock and by no
\* other: a thread that is in the watch function does not hold it, and whoever
\* holds it then is another thread inside its critical section
C11Inv ==
    \A self \in Threads :
        /\ (m = self) <=> (th[self].pc = "locked")
        /\ th[self].pc = "unlocked" =>
              /\ m # self
              /\ th[self].w # "nil"
              /\ th[self].args # <<>>
        /\ stack[self] # <<>> => th[self].pc \in {"locked", "unlocked"}

\* what C11 asks of every step of a thread: the step that starts the calls of
\* the watch function is the one that unlocks; a call made from inside the
\* watch function takes the free mutex as any call does and keeps the calls
\* that wait for it; a step in the watch function changes nothing of the clock
C11Step ==
    \A self \in Threads :
        /\ (th[self].pc # "unlocked" /\ th'[self].pc = "unlocked") =>
              m = self /\ m' = NoThread
        /\ (th[self].pc = "unlocked" /\ th'[self].pc = "locked") =>
              /\ m = NoThread /\ m' = self
              /\ stack'[self] = <<[w |-> th[self].w, args |-> th[self].args]>>
                                   \o stack[self]
        /\ (th[self].pc = "unlocked" /\ th'[self] # th[self]
                /\ th'[self].pc # "locked") =>
              /\ m' = m
              /\ <<now, timers, tickers, tm, tk, watch>>' =
                    <<now, timers, tickers, tm, tk, watch>>

\* C11: the watch function is never called while the calling thread holds the
\* clock's mutex: every operation unlocks before it calls it, so a watch
\* function that itself calls Add, Now, NewTimer, NewTicker, Reset, Stop or
\* SetWatchFunc on the same clock is never kept from the mutex by its own
\* thread: it takes the mutex once it is free, as any call does.
C11_WatchOutsideLock == []C11Inv /\ [][C11Step]_vars

\* a call made from inside the watch function has unlocked and is itself
\* calling the watch function, while the other thread holds the mutex
C11_Witness ==
    \E self \in Threads :
        /\ stack[self] # <<>>
        /\ th[self].pc = "unlocked"
        /\ m \in Threads \ {self}

\* what C12 asks of every step.  In the critical section of NewTimer(d),
\* Reset(d) or NewTicker(d) the timer or ticker is made or armed again and,
\* with a watch function set, the thread is left with the one call w(d) to
\* make; the step that makes a thread's last call leaves it with none
C12Step ==
    \A self \in Threads :
        /\ (m = self /\ (Ran("NewTimer") \/ Ran("Reset") \/ Ran("NewTicker"))) =>
              /\ IF watch # "nil"
                 THEN th'[self] = [pc |-> "unlocked", w |-> watch,
                                   args |-> <<res'.d>>]
                 ELSE th'[self] = Idle
              /\ res'.op \in {"NewTimer", "Reset"} =>
                    /\ tm'[res'.obj].made
                    /\ tm'[res'.obj].fired = (res'.d <= 0)
                    /\ (res'.obj \in Range(timers')) = (res'.d > 0)
                    /\ tm'[res'.obj].time = now + (IF res'.d > 0 THEN res'.d ELSE 0)
              /\ res'.op = "NewTicker" =>
                    /\ tk'[res'.obj].made
                    /\ res'.obj \in Range(tickers')
                    /\ tk'[res'.obj].next = now + res'.d
        /\ (th[self].pc = "unlocked" /\ Len(th[self].args) = 1
                /\ th'[self] # th[self]) =>
              /\ th'[self] = Idle
              /\ res' = res

\* C12: with a watch function set, each NewTimer(d), each Reset(d) and each
\* NewTicker(d) calls it exactly once, with d, after the timer or ticker has
\* been made or armed again; for every d, also the d <= 0 with which NewTimer
\* and Reset fire the timer at once.
C12_WatchCalledOnce == [][C12Step]_vars

\* the timer of a Reset(d), d <= 0, has fired and the thread is to call w(d)
C12_Witness ==
    \E self \in Threads :
        /\ res.op = "Reset"
        /\ res.d <= 0
        /\ tm[res.obj].fired
        /\ th[self] = [pc |-> "unlocked", w |-> "f", args |-> <<res.d>>]

\* the periods of the tickers of list, in its order, whose deadline is at or
\* before t1
DuePeriods(list, t1) ==
    LET due == SelectSeq(list, LAMBDA k : tk[k].next <= t1)
    IN [i \in 1..Len(due) |-> tk[due[i]].d]

\* what C13 asks of every step.  The critical section of an operation that
\* changes the time unlocks and leaves the thread to call the watch function
\* with the period of each registered ticker that was due, in the order of the
\* tickers, whatever the channels hold and whatever timers fire; that of an
\* operation that leaves the time alone leaves no call; the calls are made one
\* at a time from the first
C13Step ==
    \A self \in Threads :
        /\ (m = self /\ (Ran("Add") \/ Ran("Now"))) =>
              /\ m' = NoThread
              /\ th'[self] =
                    IF now' # now /\ watch # "nil" /\ DuePeriods(tickers, now') # <<>>
                    THEN [pc |-> "unlocked", w |-> watch,
                          args |-> DuePeriods(tickers, now')]
                    ELSE Idle
        /\ (m = self /\ (Ran("Peek") \/ Ran("TickerStop"))) =>
              m' = NoThread /\ th'[self] = Idle
        /\ (th[self].pc = "unlocked" /\ th'[self] # th[self]) =>
              /\ m # self
              /\ th'[self] = IF Len(th[self].args) > 1
                             THEN [th[self] EXCEPT !.args = Tail(@)]
                             ELSE Idle

\* C13: for each operation that changes the time, the watch function is called
\* once for every registered ticker whose deadline was reached, with that
\* ticker's period, in the order of the tickers in the clock's list and after
\* the mutex is released; a ticker whose value was dropped on a full channel
\* counts, a timer that fires causes no call, and an operation that fires no
\* ticker causes none.
C13_WatchPerDueTicker == [][C13Step]_vars

\* an Add has fired the timer and both tickers, the second ticker's value was
\* dropped on its full channel, and the thread is to call the watch function
\* with the two periods in the tickers' order
C13_Witness ==
    \E self \in Threads :
        /\ res.op = "Add"
        /\ tickers = <<1, 2>>
        /\ tk[1].d = 2 /\ tk[2].d = 1
        /\ tk[1].c = <<now>>
        /\ tk[2].c # <<>> /\ tk[2].c[1] < now
        /\ tm[1].c = <<now>>
        /\ th[self] = [pc |-> "unlocked", w |-> "f", args |-> <<2, 1>>]

\* the clock and what hangs on it: time, lists, timers, tickers with their
\* channels, watch function, mutex and the calls of the watch function to make
ClockState == <<step, now, timers, tickers, tm, tk, watch, m, th, stack>>

\* NewWithStep with a negative step has panicked and there is no clock, ever;
\* with a step of zero or more there is a clock with that step
C14Inv ==
    /\ built <=> ~(res.op = "NewWithStep" /\ res.panicked)
    /\ built => step \in 0..MaxStep
    /\ ~built =>
          /\ res.d < 0
          /\ MadeTimers = {} /\ MadeTickers = {}
          /\ timers = <<>> /\ tickers = <<>>
          /\ m = NoThread
          /\ \A self \in Threads : th[self] = Idle

\* what C14 asks of every step.  A call of Add or NewTicker panics exactly on
\* the arguments named, and the step that panics leaves the clock as it was;
\* Add(0) runs and leaves the time as it was
C14Step ==
    /\ (res' # res /\ res'.op = "Add") => (res'.panicked <=> res'.d < 0)
    /\ (res' # res /\ res'.op = "NewTicker") => (res'.panicked <=> res'.d <= 0)
    /\ (res' # res /\ res'.panicked) => ClockState' = ClockState
    /\ (Ran("Add") /\ res'.d = 0 /\ ~res'.panicked) => now' = now

\* C14: a call that breaks a precondition is aborted and leaves the clock
\* untouched.  Add(delta) with delta < 0 panics with the time, the lists of
\* timers and tickers and all channels unchanged and no call of the watch
\* function; NewTicker(d) with d <= 0 panics with no ticker registered and no
\* call of the watch function; NewWithStep with a negative step panics and
\* gives no clock; Add(0) and a step of 0 are accepted.
C14_PanicsLeaveClock == []C14Inv /\ [][C14Step]_vars

\* Add has panicked on a clock of step 0 that has a pending timer, a
\* registered ticker with a value on its channel and a watch function
C14_Witness ==
    /\ res.op = "Add" /\ res.panicked
    /\ step = 0
    /\ timers # <<>>
    /\ tickers # <<>>
    /\ \E k \in TickerIds : tk[k].c # <<>>
    /\ watch = "f"

\* what C15 asks of every step.  The critical section of Peek returns the time
\* and leaves the clock as it was but for the mutex it releases, with no call
\* of the watch function to make; Now returns the time it found; and the time
\* changes in no step but the critical sections of Add and Now, so that a Now
\* that follows Peeks finds the time they returned
C15Step ==
    /\ Ran("Peek") =>
          /\ res'.ret = now
          /\ <<step, now, timers, tickers, tm, tk, watch, stack>>' =
                <<step, now, timers, tickers, tm, tk, watch, stack>>
          /\ m' = NoThread
          /\ \A self \in Threads :
                th'[self] = IF m = self THEN Idle ELSE th[self]
    /\ Ran("Now") => res'.ret = now
    /\ now' # now => (Ran("Add") \/ Ran("Now"))

\* C15: Peek returns the current time and changes nothing: the time, the lists
\* of timers and tickers, every timer's fired flag and target, every ticker's
\* deadline and every channel are after Peek as before, the watch function is
\* not called, and so on a clock with a step too: a Now that follows any
\* number of Peeks returns the value they returned.
C15_PeekChangesNothing == [][C15Step]_vars

\* Peek has returned the time of a clock with a step, after the time moved,
\* with a pending timer, a registered ticker that has a value on its channel
\* and a watch function set
C15_Witness ==
    /\ res.op = "Peek"
    /\ res.ret = now
    /\ step > 0
    /\ now > StartTime
    /\ timers # <<>>
    /\ tickers # <<>>
    /\ \E k \in TickerIds : tk[k].c # <<>>
    /\ watch = "f"

\* every ticker has a period above zero, with which the loop that moves its
\* deadline past the time ends after any advance of the clock; and a thread
\* that holds the mutex is in its critical section
C16Inv ==
    /\ \A k \in MadeTickers :
          /\ tk[k].d > 0
          /\ \A gap \in Deltas :
                FastForward(tk[k].next, tk[k].d, now + gap) > now + gap
    /\ \A self \in Threads : m = self => th[self].pc = "locked"

\* a call that was made returns, and a mutex that is held is released
C16Returns ==
    /\ \A self \in Threads : (th[self].pc # "idle") ~> (th[self].pc = "idle")
    /\ (m # NoThread) ~> (m = NoThread)

\* C16: when every thread that can take a step does, and the watch function
\* returns, every call of an operation of the clock, a timer or a ticker
\* returns, in every interleaving: the mutex is always released again, no send
\* on a channel blocks, and the loop that moves a ticker's deadline ends for
\* every gap between deadline and time since the period is above zero.
C16_CallsReturn == []C16Inv /\ C16Returns

\* a thread waits for the mutex, which the other thread holds, while the
\* channels of a timer that is pending again and of a registered ticker are
\* full, so that the sends to come will find no room
C16_Witness ==
    \E self \in Threads :
        /\ th[self].pc = "calling"
        /\ m \in Threads \ {self}
        /\ \E t \in Range(timers) : Len(tm[t].c) = ChanCap
        /\ \E k \in Range(tickers) : Len(tk[k].c) = ChanCap

\* how often timer t is in the clock's list of timers
Count(list, t) == Cardinality({i \in 1..Len(list) : list[i] = t})

\* C17: in every reachable state in which the mutex is free, for every timer
\* made on the clock: the timer is in the clock's list of timers if and only
\* if its fired flag is false, it is in the list at most once (also after a
\* Reset of a pending timer), and the target of every timer in the list is
\* after the current time, so no thread sees a time together with a timer that
\* is due at it and still pending.
C17_PendingIffNotFired ==
    m = NoThread =>
        /\ Range(timers) \subseteq MadeTimers
        /\ \A t \in MadeTimers :
              /\ (t \in Range(timers)) <=> ~tm[t].fired
              /\ Count(timers, t) <= 1
              /\ t \in Range(timers) => tm[t].time > now

\* a Reset of a pending timer has returned, after the time moved, and has left
\* it pending next to the other timer; the mutex is free
C17_Witness ==
    /\ m = NoThread
    /\ res.op = "Reset" /\ res.active /\ res.d > 0
    /\ now > StartTime
    /\ Len(timers) = MaxTimers
    /\ \A t \in Range(timers) : ~tm[t].fired /\ Count(timers, t) = 1

\* C18: in every reachable state in which the mutex is free, every registered
\* ticker of period p made at time T0 has a deadline T0 + k*p, k >= 1, with
\* time < deadline <= time + p: deadlines stay on the grid of the time the
\* ticker was made at and do not drift to (time of the tick + p) when an Add
\* passes a deadline.
C18_TickerGrid ==
    m = NoThread =>
        \A k \in Range(tickers) :
            /\ tk[k].d > 0
            /\ tk[k].next >= tkh[k].t0 + tk[k].d
            /\ (tk[k].next - tkh[k].t0) % tk[k].d = 0
            /\ now < tk[k].next
            /\ tk[k].next <= now + tk[k].d

\* an Add has passed the first deadline of a registered ticker by less than a
\* period: the ticker holds the time of the Add and its deadline is two
\* periods after the time it was made at
C18_Witness ==
    /\ m = NoThread
    /\ res.op = "Add"
    /\ \E k \in Range(tickers) :
          /\ now > tkh[k].t0 + tk[k].d
          /\ now < tkh[k].t0 + 2 * tk[k].d
          /\ tk[k].c = <<now>>
          /\ tk[k].next = tkh[k].t0 + 2 * tk[k].d

\* what C19 asks of every step.  The critical section of Now on a clock with a
\* step adds the step, returns the time it found and, in that same step, fires
\* every timer of the list and every registered ticker that is due at the new
\* time, sending the new time, and leaves the thread the calls of the watch
\* function for the tickers that were due.  The critical sections of Now on a
\* clock without a step, of Add(0), of Peek and of Stop send nothing, fire no
\* timer (Stop sets the flag of its own) and leave no call
C19Step ==
    \A self \in Threads :
        /\ (m = self /\ Ran("Now") /\ step > 0) =>
              /\ now' = now + step
              /\ res'.ret = now
              /\ m' = NoThread
              /\ \A t \in Range(timers) :
                    IF tm[t].time <= now'
                    THEN /\ tm'[t].fired
                         /\ t \notin Range(timers')
                         /\ tm'[t].c = TrySend(tm[t].c, now')
                    ELSE tm'[t] = tm[t] /\ t \in Range(timers')
              /\ \A t \in TimerIds \ Range(timers) : tm'[t] = tm[t]
              /\ \A k \in Range(tickers) :
                    IF tk[k].next <= now'
                    THEN /\ tk'[k].c = TrySend(tk[k].c, now')
                         /\ tk'[k].next > now'
                    ELSE tk'[k] = tk[k]
              /\ \A k \in TickerIds \ Range(tickers) : tk'[k] = tk[k]
              /\ th'[self] =
                    IF watch # "nil" /\ DuePeriods(tickers, now') # <<>>
                    THEN [pc |-> "unlocked", w |-> watch,
                          args |-> DuePeriods(tickers, now')]
                    ELSE Idle
        /\ (m = self /\ \/ Ran("Now") /\ step = 0
                        \/ Ran("Add") /\ res'.d = 0
                        \/ Ran("Peek")
                        \/ Ran("Stop")) =>
              /\ now' = now
              /\ tk' = tk
              /\ \A t \in TimerIds :
                    /\ tm'[t].c = tm[t].c
                    /\ tm'[t].time = tm[t].time
                    /\ tm'[t].fired # tm[t].fired =>
                          res'.op = "Stop" /\ res'.obj = t
              /\ th'[self] = Idle

\* C19: on a clock with a step above zero each Now advances the time as
\* Add(step) does: in the same critical section it fires every pending timer
\* and every registered ticker whose deadline is at or before the new time,
\* sending the new time and not the value Now returns, and it calls the watch
\* function for the tickers that fired; a Now on a clock of step 0, an Add(0),
\* a Peek and a Stop fire nothing.
C19_NowAdvances == [][C19Step]_vars

\* a Now has fired the timer and the ticker, which hold the new time and not
\* the time Now returned, and the thread is to call the watch function
C19_Witness ==
    \E self \in Threads :
        /\ res.op = "Now"
        /\ step > 0
        /\ res.ret = now - step
        /\ \E t \in TimerIds :
              /\ tmh[t].status = "pos"
              /\ tm[t].fired /\ tm[t].c = <<now>> /\ tm[t].time = now
        /\ \E k \in Range(tickers) : tk[k].c = <<now>>
        /\ th[self].pc = "unlocked"

\* what C20 asks of every step.  The watch function of the clock changes in
\* the critical section of SetWatchFunc alone, which changes nothing else of
\* the clock and calls nothing; a call reads it when it takes the mutex and
\* keeps what it read until it returns; it calls what it read, nothing when
\* that is nil, once for each of its arguments, whatever the watch function of
\* the clock is by then
C20Step ==
    /\ watch' # watch => Ran("SetWatchFunc")
    /\ Ran("SetWatchFunc") =>
          /\ <<step, now, timers, tickers, tm, tk>>' =
                <<step, now, timers, tickers, tm, tk>>
          /\ \A self \in Threads : m = self => th'[self] = Idle
    /\ \A self \in Threads :
          /\ (th[self].pc = "idle" /\ th'[self].pc = "locked") =>
                th'[self].w = watch
          /\ (th[self].pc # "idle" /\ th'[self].pc # "idle") =>
                th'[self].w = th[self].w
          /\ (th[self].pc = "locked" /\ th[self].w = "nil") =>
                th'[self].pc # "unlocked"
          /\ (th[self].pc = "unlocked" /\ th'[self] # th[self]) =>
                th'[self] = IF Len(th[self].args) > 1
                             THEN [th[self] EXCEPT !.args = Tail(@)]
                             ELSE Idle

\* C20: the watch function an operation calls is the one that was set when the
\* operation took the mutex: an operation that takes the mutex after
\* SetWatchFunc(f) has returned calls f alone (nothing when f is nil), and one
\* that took the mutex before a concurrent SetWatchFunc(g) still calls the
\* earlier function, even after SetWatchFunc(g) has returned; SetWatchFunc
\* itself changes no time, timer, ticker or channel.
C20_WatchReadUnderLock == [][C20Step]_vars

\* SetWatchFunc(nil) has returned while a thread that read the watch function
\* f before still has two calls of f to make
C20_Witness ==
    \E self \in Threads :
        /\ res.op = "SetWatchFunc"
        /\ watch = "nil"
        /\ th[self].pc = "unlocked"
        /\ th[self].w = "f"
        /\ Len(th[self].args) = 2
====
